---------------------------- MODULE Spec2Model ----------------------------
(***************************************************************************)
(* State-machine model of the stock-portfolio REST backend (src/index.js). *)
(*                                                                         *)
(* The process is a single-threaded event loop.  A request is received,    *)
(* passes the verifyToken gate and runs its route handler up to the first  *)
(* await; every later step is the continuation that runs when the awaited  *)
(* I/O (a Firestore call, an axios.get to the quote provider) completes.   *)
(* Continuations run to completion, so each action below is one such run.  *)
(*                                                                         *)
(* JavaScript values are modelled as tagged records (JSValue) and objects  *)
(* as functions from field names to JSValue, so that object spread, a      *)
(* missing field (undefined), NaN and `x || 0` behave as in the source.    *)
(* Strings are sequences of characters (or of larger chunks where the      *)
(* program never looks inside them); prices are integers.                  *)
(***************************************************************************)
EXTENDS Integers, Sequences, FiniteSets, TLC

VARIABLES
    store,      \* Firestore collection "portfolios": doc id -> stored fields
    nextId,     \* next store-assigned document id
    pc,         \* per request slot: where the request's handler is suspended
    rq,         \* per request slot: the HTTP request (header, route, params, body)
    user,       \* per request slot: req.user.uid set by verifyToken
    docs,       \* per request slot: portfolio.docs, the snapshot the read returned
    lookups,    \* per request slot: per doc, the provider's answer or Pending
    stocks,     \* per request slot: the Promise.all result array being filled
    calls,      \* per request slot: axios.get calls issued for this request
    responses   \* per request slot: the responses sent, in order

vars == <<store, nextId, pc, rq, user, docs, lookups, stocks, calls, responses>>

---------------------------------------------------------------------------
(* Bounds *)

MaxDocs == 2

Reqs == {1, 2}

DocIds == 1..MaxDocs

---------------------------------------------------------------------------
(* JavaScript values *)

Undef == [t |-> "undefined", n |-> 0, s |-> <<>>]

NaN == [t |-> "NaN", n |-> 0, s |-> <<>>]

Num(k) == [t |-> "number", n |-> k, s |-> <<>>]

Str(cs) == [t |-> "string", n |-> 0, s |-> cs]

\* obj.f, undefined when the field is missing
Get(obj, f) == IF f \in DOMAIN obj THEN obj[f] ELSE Undef

\* {...base, ...over}: later keys win
Spread(base, over) ==
    [f \in (DOMAIN base) \cup (DOMAIN over) |->
        IF f \in DOMAIN over THEN over[f] ELSE base[f]]

IsNum(v) == v.t = "number"

\* a * b on numbers; NaN when either operand is not a number
JSMul(a, b) == IF IsNum(a) /\ IsNum(b) THEN Num(a.n * b.n) ELSE NaN

\* a - b on numbers; NaN when either operand is not a number
JSSub(a, b) == IF IsNum(a) /\ IsNum(b) THEN Num(a.n - b.n) ELSE NaN

\* a + b on numbers; NaN when either operand is not a number
JSAdd(a, b) == IF IsNum(a) /\ IsNum(b) THEN Num(a.n + b.n) ELSE NaN

\* ToBoolean: undefined, NaN, 0 and "" are falsy
Truthy(v) ==
    CASE v.t = "undefined" -> FALSE
      [] v.t = "NaN"       -> FALSE
      [] v.t = "number"    -> v.n # 0
      [] OTHER             -> v.s # <<>>

\* v || 0
OrZero(v) == IF Truthy(v) THEN v ELSE Num(0)

DigitVal ==
    [c \in {"0", "1", "2", "3", "4", "5", "6", "7", "8", "9"} |->
        CASE c = "0" -> 0 [] c = "1" -> 1 [] c = "2" -> 2 [] c = "3" -> 3
          [] c = "4" -> 4 [] c = "5" -> 5 [] c = "6" -> 6 [] c = "7" -> 7
          [] c = "8" -> 8 [] OTHER -> 9]

IsDigit(c) == c \in DOMAIN DigitVal

RECURSIVE DigitPrefix(_)
\* the longest prefix of cs made of digits
DigitPrefix(cs) ==
    IF cs = <<>> \/ ~IsDigit(Head(cs)) THEN <<>>
    ELSE <<Head(cs)>> \o DigitPrefix(Tail(cs))

RECURSIVE DecimalValue(_)
DecimalValue(ds) ==
    IF ds = <<>> THEN 0
    ELSE 10 * DecimalValue(SubSeq(ds, 1, Len(ds) - 1)) + DigitVal[ds[Len(ds)]]

\* parseFloat: the number its argument starts with, NaN when there is none
\* (undefined is converted to the string "undefined" first)
parseFloat(v) ==
    CASE v.t = "number" -> v
      [] v.t = "string" ->
            IF DigitPrefix(v.s) = <<>> THEN NaN
            ELSE Num(DecimalValue(DigitPrefix(v.s)))
      [] OTHER -> NaN

---------------------------------------------------------------------------
(* Requests and tokens *)

UserA == Str(<<"A">>)

UserB == Str(<<"B">>)

Users == {UserA, UserB}

\* the Authorization header: absent, or a token with its signature state,
\* whether its one-hour lifetime has passed, and the payload it carries
NoToken == [present |-> FALSE, sig |-> "none", expired |-> FALSE, uid |-> Undef]

\* jwt.sign({ uid }, SECRET_KEY, { expiresIn: "1h" }) as seen at a later time
SignedToken(uid, isExpired) ==
    [present |-> TRUE, sig |-> "good", expired |-> isExpired, uid |-> uid]

\* a token not signed with SECRET_KEY
ForgedToken(uid) ==
    [present |-> TRUE, sig |-> "bad", expired |-> FALSE, uid |-> uid]

Tokens ==
    {NoToken, ForgedToken(UserA), SignedToken(UserA, TRUE)}
        \cup {SignedToken(u, FALSE) : u \in Users}

\* jwt.verify: the signature is checked before the expiry
JwtVerify(token) ==
    IF token.sig # "good" THEN [err |-> "JsonWebTokenError", decoded |-> Undef]
    ELSE IF token.expired THEN [err |-> "TokenExpiredError", decoded |-> Undef]
    ELSE [err |-> "none", decoded |-> token.uid]

Text(msg) == [kind |-> "text", text |-> msg]

Response(status, body) == [status |-> status, body |-> body]

\* a gate that checks the signature only: an expired token passes
verifyTokenIgnoringExpiry(token) ==
    IF ~token.present
    THEN [next |-> FALSE, user |-> Undef, res |-> Response(403, Text("Token required"))]
    ELSE IF token.sig # "good"
    THEN [next |-> FALSE, user |-> Undef, res |-> Response(401, Text("Invalid token"))]
    ELSE [next |-> TRUE, user |-> token.uid, res |-> Response(0, Text(""))]

\* verifyToken: the response it sends, or next() with req.user set
verifyToken(token) ==
    IF ~token.present
    THEN [next |-> FALSE, user |-> Undef, res |-> Response(403, Text("Token required"))]
    ELSE IF JwtVerify(token).err # "none"
    THEN [next |-> FALSE, user |-> Undef, res |-> Response(401, Text("Invalid token"))]
    ELSE [next |-> TRUE, user |-> JwtVerify(token).decoded, res |-> Response(0, Text(""))]


---------------------------------------------------------------------------
(* The holdings store (Firestore collection "portfolios") *)

\* doc.id, a store-assigned string
DocName(d) == Str(<<"doc", ToString(d)>>)

Doc(d, data) == [id |-> DocName(d), data |-> data]

RECURSIVE DocsFrom(_, _, _)
\* the documents of st with ids d..MaxDocs whose uid field equals uid
DocsFrom(st, uid, d) ==
    IF d > MaxDocs THEN <<>>
    ELSE IF d \in DOMAIN st /\ Get(st[d], "uid") = uid
         THEN <<Doc(d, st[d])>> \o DocsFrom(st, uid, d + 1)
         ELSE DocsFrom(st, uid, d + 1)

\* db.collection("portfolios").where("uid", "==", uid).get()
QueryPortfolio(st, uid) == DocsFrom(st, uid, 1)

\* db.collection("portfolios").add({uid, symbol, quantity, purchasePrice})
StoreAdd(st, d, uid, body) ==
    [x \in (DOMAIN st) \cup {d} |->
        IF x = d
        THEN [uid           |-> uid,
              symbol        |-> Get(body, "symbol"),
              quantity      |-> Get(body, "quantity"),
              purchasePrice |-> Get(body, "purchasePrice")]
        ELSE st[x]]

\* db.collection("portfolios").doc(id).update(req.body): the patch's fields
\* replace or extend the stored ones; the caller's identity is not consulted
StoreUpdate(st, d, body) == [st EXCEPT ![d] = Spread(st[d], body)]

\* db.collection("portfolios").doc(id).delete(); the caller's identity is not
\* consulted
StoreDelete(st, d) == [x \in (DOMAIN st) \ {d} |-> st[x]]

---------------------------------------------------------------------------
(* The quote provider's answers to one axios.get *)

\* the lookup has been issued and has not completed
Pending == [t |-> "pending", gq |-> FALSE, price |-> Undef]

\* axios.get rejects: the provider is unreachable or answers a non-2xx status
NetErr == [t |-> "error", gq |-> FALSE, price |-> Undef]

\* a 2xx answer whose body has no 'Global Quote' member
NoQuote == [t |-> "data", gq |-> FALSE, price |-> Undef]

\* a 2xx answer whose 'Global Quote' is {}: what the provider sends for a
\* symbol it does not know
EmptyQuote == [t |-> "data", gq |-> TRUE, price |-> Undef]

\* a 2xx answer whose 'Global Quote' has '05. price' = the string cs
QuoteOf(cs) == [t |-> "data", gq |-> TRUE, price |-> Str(cs)]

Answers ==
    {NetErr, NoQuote, EmptyQuote,
     QuoteOf(<<"7">>), QuoteOf(<<"1", "2">>), QuoteOf(<<"x">>)}

---------------------------------------------------------------------------
(* GET /portfolio: the per-holding mapper and the summary *)

FailedMarker == Str(<<"Failed to fetch current price">>)

\* the object returned by the mapper's try block
ValuedEntry(doc, currentPrice) ==
    Spread(Spread([id |-> doc.id], doc.data),
           [currentPrice |-> currentPrice,
            totalValue   |-> JSMul(currentPrice, Get(doc.data, "quantity")),
            profitLoss   |-> JSMul(JSSub(currentPrice, Get(doc.data, "purchasePrice")),
                                   Get(doc.data, "quantity"))])

\* the object returned by the mapper's catch block
FailedEntry(doc) ==
    Spread(Spread([id |-> doc.id], doc.data), [error |-> FailedMarker])

\* a mapper without its try/catch: a failed lookup rejects the mapper's promise
MapperNoCatch(doc, answer) ==
    IF answer.t = "error" \/ ~answer.gq
    THEN [ok |-> FALSE, value |-> FailedEntry(doc)]
    ELSE [ok |-> TRUE, value |-> ValuedEntry(doc, parseFloat(answer.price))]

\* the async mapper's continuation once axios.get has completed with answer:
\* a rejected axios.get and the TypeError of reading '05. price' of undefined
\* are both caught; anything else is valued
Mapper(doc, answer) ==
    IF answer.t = "error" \/ ~answer.gq
    THEN [ok |-> TRUE, value |-> FailedEntry(doc)]
    ELSE [ok |-> TRUE, value |-> ValuedEntry(doc, parseFloat(answer.price))]

RECURSIVE ReduceSum(_, _, _)
\* arr.reduce((sum, stock) => sum + (stock[f] || 0), acc)
ReduceSum(arr, f, acc) ==
    IF arr = <<>> THEN acc
    ELSE ReduceSum(Tail(arr), f, JSAdd(acc, OrZero(Get(Head(arr), f))))

PortfolioSummary(arr) ==
    [kind            |-> "summary",
     stocks          |-> arr,
     totalValue      |-> ReduceSum(arr, "totalValue", Num(0)),
     totalProfitLoss |-> ReduceSum(arr, "profitLoss", Num(0))]

\* a slot of the Promise.all result array whose promise has not resolved
Hole == [hole |-> Undef]

\* Promise.all resolving too early: as soon as any promise has resolved
AnySettled(lks) == \E i \in 1..Len(lks) : lks[i] # Pending

\* Promise.all resolves when every mapper promise has resolved
AllSettled(lks) == \A i \in 1..Len(lks) : lks[i] # Pending

\* a lookup's failure aborting its siblings
SettleCancelling(lks, i, answer) ==
    IF answer.t = "error"
    THEN [j \in 1..Len(lks) |-> IF lks[j] = Pending THEN NetErr ELSE lks[j]]
    ELSE [lks EXCEPT ![i] = answer]

\* the i-th axios.get completes with answer; the others stay as they are
SettleLookup(lks, i, answer) == [lks EXCEPT ![i] = answer]

\* results kept in one array shared by all requests
FillShared(all, r, i, e) ==
    [q \in DOMAIN all |->
        IF i <= Len(all[q]) THEN [all[q] EXCEPT ![i] = e] ELSE all[q]]

\* results written to the first slot whatever the index
FillFirst(all, r, i, e) == [all EXCEPT ![r][1] = e]

\* the i-th mapper promise of request r resolves with e
FillResult(all, r, i, e) == [all EXCEPT ![r][i] = e]


---------------------------------------------------------------------------
(* Requests the clients send *)

EmptyObj == [f \in {} |-> Undef]

SymbolAAA == Str(<<"A", "A", "A">>)

AddBodies ==
    {[symbol |-> SymbolAAA, quantity |-> Num(10), purchasePrice |-> Num(5)]}

\* PUT bodies: any fields at all may be patched
Patches ==
    {[quantity |-> Num(3)], [totalValue |-> Num(1000)]}
        \cup {[uid |-> u] : u \in Users}

Request(token, route, id, body, symbol) ==
    [token |-> token, route |-> route, id |-> id, body |-> body, symbol |-> symbol]

NoRequest == Request(NoToken, "none", 0, EmptyObj, Undef)

AddRequests == {Request(t, "POST /portfolio/add", 0, b, Undef) : t \in Tokens, b \in AddBodies}

GetRequests == {Request(t, "GET /portfolio", 0, EmptyObj, Undef) : t \in Tokens}

PutRequests ==
    {Request(t, "PUT /portfolio/:id", d, b, Undef) : t \in Tokens, d \in DocIds, b \in Patches}

DeleteRequests ==
    {Request(t, "DELETE /portfolio/:id", d, EmptyObj, Undef) : t \in Tokens, d \in DocIds}

LiveRequests ==
    {Request(t, "GET /stocks/live", 0, EmptyObj, sym) : t \in Tokens, sym \in {Undef, SymbolAAA}}

Requests == AddRequests \cup GetRequests \cup PutRequests \cup DeleteRequests \cup LiveRequests

StoreErrorText == Text("store error")

ProviderErrorText == Text("provider error")

---------------------------------------------------------------------------
(* Initial state: an empty collection, no request in flight *)

Init ==
    /\ store = EmptyObj
    /\ nextId = 1
    /\ pc = [r \in Reqs |-> "idle"]
    /\ rq = [r \in Reqs |-> NoRequest]
    /\ user = [r \in Reqs |-> Undef]
    /\ docs = [r \in Reqs |-> <<>>]
    /\ lookups = [r \in Reqs |-> <<>>]
    /\ stocks = [r \in Reqs |-> <<>>]
    /\ calls = [r \in Reqs |-> 0]
    /\ responses = [r \in Reqs |-> <<>>]

\* res.status(status).send(body) ends the request
Send(r, status, body) ==
    /\ responses' = [responses EXCEPT ![r] = Append(@, Response(status, body))]
    /\ pc' = [pc EXCEPT ![r] = "done"]

\* the request req arrives on slot r and verifyToken calls next()
Accepted(r, req) ==
    /\ pc[r] = "idle"
    /\ verifyToken(req.token).next
    /\ rq' = [rq EXCEPT ![r] = req]
    /\ user' = [user EXCEPT ![r] = verifyToken(req.token).user]

\* verifyToken answers the request itself; the route handler is not called
Reject(r, req) ==
    /\ pc[r] = "idle"
    /\ ~verifyToken(req.token).next
    /\ rq' = [rq EXCEPT ![r] = req]
    /\ Send(r, verifyToken(req.token).res.status, verifyToken(req.token).res.body)
    /\ UNCHANGED <<store, nextId, user, docs, lookups, stocks, calls>>

\* the number of add requests whose document has not been created yet
AddsInFlight ==
    Cardinality({q \in Reqs : pc[q] = "store" /\ rq[q].route = "POST /portfolio/add"})

\* a handler that starts with a Firestore call and awaits it
StoreStart(r, req) ==
    /\ Accepted(r, req)
    /\ req.route = "POST /portfolio/add" => nextId + AddsInFlight <= MaxDocs
    /\ pc' = [pc EXCEPT ![r] = "store"]
    /\ UNCHANGED <<store, nextId, docs, lookups, stocks, calls, responses>>

\* the awaited Firestore call rejects: the handler's catch answers 500
StoreFail(r) ==
    /\ pc[r] = "store"
    /\ Send(r, 500, StoreErrorText)
    /\ UNCHANGED <<store, nextId, rq, user, docs, lookups, stocks, calls>>

\* POST /portfolio/add: the document is created
AddDone(r) ==
    /\ pc[r] = "store"
    /\ rq[r].route = "POST /portfolio/add"
    /\ store' = StoreAdd(store, nextId, user[r], rq[r].body)
    /\ nextId' = nextId + 1
    /\ Send(r, 201, Text("Stock added"))
    /\ UNCHANGED <<rq, user, docs, lookups, stocks, calls>>

\* PUT /portfolio/:id: update() of a missing document rejects
UpdateDone(r) ==
    /\ pc[r] = "store"
    /\ rq[r].route = "PUT /portfolio/:id"
    /\ IF rq[r].id \in DOMAIN store
       THEN /\ store' = StoreUpdate(store, rq[r].id, rq[r].body)
            /\ Send(r, 200, Text("Stock updated"))
       ELSE /\ store' = store
            /\ Send(r, 500, StoreErrorText)
    /\ UNCHANGED <<nextId, rq, user, docs, lookups, stocks, calls>>

\* DELETE /portfolio/:id
DeleteDone(r) ==
    /\ pc[r] = "store"
    /\ rq[r].route = "DELETE /portfolio/:id"
    /\ store' = StoreDelete(store, rq[r].id)
    /\ Send(r, 200, Text("Stock removed"))
    /\ UNCHANGED <<nextId, rq, user, docs, lookups, stocks, calls>>

\* GET /portfolio: the read returns; one axios.get per document is issued at
\* once by the map, and Promise.all of no promises resolves at once
ReadDone(r) ==
    /\ pc[r] = "store"
    /\ rq[r].route = "GET /portfolio"
    /\ LET found == QueryPortfolio(store, user[r])
           lks == [i \in 1..Len(found) |-> Pending]
       IN  /\ docs' = [docs EXCEPT ![r] = found]
           /\ lookups' = [lookups EXCEPT ![r] = lks]
           /\ stocks' = [stocks EXCEPT ![r] = [i \in 1..Len(found) |-> Hole]]
           /\ calls' = [calls EXCEPT ![r] = Len(found)]
           /\ IF AllSettled(lks)
              THEN Send(r, 200, PortfolioSummary(<<>>))
              ELSE /\ pc' = [pc EXCEPT ![r] = "quotes"]
                   /\ responses' = responses
    /\ UNCHANGED <<store, nextId, rq, user>>

\* GET /portfolio: the i-th axios.get completes with answer and its mapper
\* runs to its return; when that resolves Promise.all the handler sends the
\* summary, and a rejected mapper promise would reach the handler's catch
LookupSettle(r, i, answer) ==
    /\ pc[r] = "quotes"
    /\ i \in 1..Len(lookups[r])
    /\ lookups[r][i] = Pending
    /\ LET lks == SettleLookup(lookups[r], i, answer)
           m == Mapper(docs[r][i], answer)
           filled == FillResult(stocks, r, i, m.value)
       IN  /\ lookups' = [lookups EXCEPT ![r] = lks]
           /\ IF ~m.ok
              THEN /\ stocks' = stocks
                   /\ Send(r, 500, ProviderErrorText)
              ELSE /\ stocks' = filled
                   /\ IF AllSettled(lks)
                      THEN Send(r, 200, PortfolioSummary(filled[r]))
                      ELSE UNCHANGED <<pc, responses>>
    /\ UNCHANGED <<store, nextId, rq, user, docs, calls>>

\* the object GET /stocks/live sends (the fields read like price are left out)
QuoteBody(symbol, answer) ==
    [kind |-> "quote", symbol |-> symbol, price |-> answer.price]

\* GET /stocks/live up to its await: 400 without a symbol, else one axios.get
LiveStart(r, req) ==
    /\ Accepted(r, req)
    /\ req.route = "GET /stocks/live"
    /\ IF ~Truthy(req.symbol)
       THEN /\ Send(r, 400, Text("Symbol is required"))
            /\ calls' = calls
       ELSE /\ pc' = [pc EXCEPT ![r] = "provider"]
            /\ calls' = [calls EXCEPT ![r] = 1]
            /\ responses' = responses
    /\ UNCHANGED <<store, nextId, docs, lookups, stocks>>

\* the answer GET /stocks/live gives once its axios.get has completed
LiveResponse(symbol, answer) ==
    IF answer.t = "error" THEN Response(500, ProviderErrorText)
    ELSE IF ~answer.gq THEN Response(404, Text("Stock not found"))
    ELSE Response(200, QuoteBody(symbol, answer))

\* GET /stocks/live: the axios.get completes
LiveAnswer(r, answer) ==
    /\ pc[r] = "provider"
    /\ lookups' = [lookups EXCEPT ![r] = <<answer>>]
    /\ Send(r, LiveResponse(rq[r].symbol, answer).status,
               LiveResponse(rq[r].symbol, answer).body)
    /\ UNCHANGED <<store, nextId, rq, user, docs, stocks, calls>>

\* the connection is closed and the slot serves the next request
Reset(r) ==
    /\ pc[r] = "done"
    /\ pc' = [pc EXCEPT ![r] = "idle"]
    /\ rq' = [rq EXCEPT ![r] = NoRequest]
    /\ user' = [user EXCEPT ![r] = Undef]
    /\ docs' = [docs EXCEPT ![r] = <<>>]
    /\ lookups' = [lookups EXCEPT ![r] = <<>>]
    /\ stocks' = [stocks EXCEPT ![r] = <<>>]
    /\ calls' = [calls EXCEPT ![r] = 0]
    /\ responses' = [responses EXCEPT ![r] = <<>>]
    /\ UNCHANGED <<store, nextId>>

StoreRequests == AddRequests \cup GetRequests \cup PutRequests \cup DeleteRequests

ReadRequests == GetRequests \cup LiveRequests

\* an awaited call of request r completes, or its connection is closed
Complete(r) ==
    \/ StoreFail(r)
    \/ ReadDone(r)
    \/ \E i \in DocIds, a \in Answers : LookupSettle(r, i, a)
    \/ \E a \in Answers : LiveAnswer(r, a)
    \/ Reset(r)

\* the clients send one request at a time, on the first slot
OneAtATime(r) == r = 1 /\ \A q \in Reqs : pc[q] = "idle"

RejectOne(r) == OneAtATime(r) /\ \E req \in Requests : Reject(r, req)

StoreStartOne(r) == OneAtATime(r) /\ \E req \in StoreRequests : StoreStart(r, req)

LiveStartOne(r) == OneAtATime(r) /\ \E req \in LiveRequests : LiveStart(r, req)

\* every route, the clients waiting for each response before the next request
Next ==
    \E r \in Reqs :
        \/ RejectOne(r)
        \/ StoreStartOne(r)
        \/ LiveStartOne(r)
        \/ AddDone(r)
        \/ UpdateDone(r)
        \/ DeleteDone(r)
        \/ Complete(r)

Spec == Init /\ [][Next]_vars

\* every axios.get issued ends: the provider answers or the transport fails
LookupsSettle ==
    \A r \in Reqs : WF_vars(\E i \in DocIds, a \in Answers : LookupSettle(r, i, a))

FairSpec == Spec /\ LookupsSettle

---------------------------------------------------------------------------
(* Concurrent reads of a populated collection *)

RECURSIVE Populated(_)
\* the collections that d add requests, each by some user, leave behind
Populated(d) ==
    IF d = 0 THEN {EmptyObj}
    ELSE {StoreAdd(st, d, u, b) : st \in Populated(d - 1), u \in Users, b \in AddBodies}

InitConc ==
    /\ store \in Populated(MaxDocs)
    /\ nextId = MaxDocs + 1
    /\ pc = [r \in Reqs |-> "idle"]
    /\ rq = [r \in Reqs |-> NoRequest]
    /\ user = [r \in Reqs |-> Undef]
    /\ docs = [r \in Reqs |-> <<>>]
    /\ lookups = [r \in Reqs |-> <<>>]
    /\ stocks = [r \in Reqs |-> <<>>]
    /\ calls = [r \in Reqs |-> 0]
    /\ responses = [r \in Reqs |-> <<>>]

RejectAny(r) == \E req \in ReadRequests : Reject(r, req)

GetStartAny(r) == \E req \in GetRequests : StoreStart(r, req)

LiveStartAny(r) == \E req \in LiveRequests : LiveStart(r, req)

\* GET /portfolio and GET /stocks/live requests arriving at any time, each
\* slot serving one request after the other
NextConc ==
    \E r \in Reqs :
        \/ RejectAny(r)
        \/ GetStartAny(r)
        \/ LiveStartAny(r)
        \/ Complete(r)

SpecConc == InitConc /\ [][NextConc]_vars


---------------------------------------------------------------------------
(* Vocabulary of the properties *)

\* the request on slot r carried a credential the gate accepts
Authenticated(r) == rq[r].token.present /\ rq[r].token.sig = "good" /\ ~rq[r].token.expired

\* an authenticated request for route has been answered
Finished(r, route) == pc[r] = "done" /\ rq[r].route = route /\ Authenticated(r)

\* the response of an answered request
Sent(r) == responses[r][1]

\* the provider returned a price that parses as a number
Succeeded(answer) == answer.t = "data" /\ answer.gq /\ IsNum(parseFloat(answer.price))

\* the provider answered, with no price or with one that is not a number
Unparseable(answer) == answer.t = "data" /\ ~IsNum(parseFloat(answer.price))

ComputedFields == {"currentPrice", "totalValue", "profitLoss"}

RECURSIVE ValueOfSuccessful(_, _, _)
\* the sum of currentPrice * quantity over the holdings i.. whose lookup succeeded
ValueOfSuccessful(ds, lks, i) ==
    IF i > Len(ds) THEN 0
    ELSE (IF Succeeded(lks[i])
          THEN parseFloat(lks[i].price).n * ds[i].data["quantity"].n
          ELSE 0) + ValueOfSuccessful(ds, lks, i + 1)

RECURSIVE ProfitOfSuccessful(_, _, _)
\* the sum of (currentPrice - purchasePrice) * quantity over the holdings i..
\* whose lookup succeeded
ProfitOfSuccessful(ds, lks, i) ==
    IF i > Len(ds) THEN 0
    ELSE (IF Succeeded(lks[i])
          THEN (parseFloat(lks[i].price).n - ds[i].data["purchasePrice"].n)
                   * ds[i].data["quantity"].n
          ELSE 0) + ProfitOfSuccessful(ds, lks, i + 1)

---------------------------------------------------------------------------
(* Claims *)

C2_TotalsOverSuccessfulOnly ==
    \A r \in Reqs :
        Finished(r, "GET /portfolio") /\ Sent(r).status = 200 =>
            /\ Sent(r).body.totalValue = Num(ValueOfSuccessful(docs[r], lookups[r], 1))
            /\ Sent(r).body.totalProfitLoss = Num(ProfitOfSuccessful(docs[r], lookups[r], 1))

\* C3: a holding whose provider answer has no price, or a price that does
\* not parse as a number, gets the failure marker and none of currentPrice,
\* totalValue, profitLoss, and the request still answers 200.
C3_UnparseablePriceIsFailure ==
    \A r \in Reqs :
        Finished(r, "GET /portfolio") =>
            \A i \in 1..Len(lookups[r]) :
                Unparseable(lookups[r][i]) =>
                    /\ Sent(r).status = 200
                    /\ Get(Sent(r).body.stocks[i], "error") = FailedMarker
                    /\ DOMAIN Sent(r).body.stocks[i] \cap ComputedFields = {}

\* C4: an authenticated GET /portfolio ends in 500 only when the store read
\* failed (no lookup was issued); once lookups are issued it ends in 200 with
\* a summary, whatever each lookup's outcome.
C4_ErrorOnlyOnStoreFailure ==
    \A r \in Reqs :
        Finished(r, "GET /portfolio") =>
            /\ Len(responses[r]) = 1
            /\ \/ Sent(r).status = 200 /\ Sent(r).body.kind = "summary"
               \/ /\ Sent(r).status = 500
                  /\ Sent(r).body = StoreErrorText
                  /\ Len(lookups[r]) = 0
                  /\ calls[r] = 0

\* both lookups of a request failed, in different ways, and it answered 200
C4_Witness ==
    \E r \in Reqs :
        /\ Finished(r, "GET /portfolio")
        /\ lookups[r] = <<NetErr, NoQuote>>
        /\ Sent(r).status = 200

\* the entry without the id of the document it was made from
WithoutId(e) == [f \in (DOMAIN e) \ {"id"} |-> e[f]]

\* C5: a step that settles one lookup of a request leaves every other lookup
\* of that request, and the entry of every other holding, as it was; and the
\* entry made for a holding is determined by that holding's stored fields
\* and its own lookup's outcome: equal fields and equal outcomes give equal
\* entries.
C5_LookupsIsolated ==
    [][ /\ \A r \in Reqs :
              pc[r] = "quotes" =>
                  \A i \in 1..Len(lookups[r]) :
                      lookups'[r][i] # lookups[r][i] =>
                          /\ lookups[r][i] = Pending
                          /\ stocks'[r][i] # Hole
                          /\ \A k \in (1..Len(lookups[r])) \ {i} :
                                /\ lookups'[r][k] = lookups[r][k]
                                /\ stocks'[r][k] = stocks[r][k]
        /\ \A r, q \in Reqs :
              \A i \in 1..Len(lookups'[r]), j \in 1..Len(lookups'[q]) :
                  /\ rq'[r].route = "GET /portfolio"
                  /\ rq'[q].route = "GET /portfolio"
                  /\ lookups'[r][i] # Pending
                  /\ lookups'[r][i] = lookups'[q][j]
                  /\ docs'[r][i].data = docs'[q][j].data
                  => WithoutId(stocks'[r][i]) = WithoutId(stocks'[q][j])
      ]_vars

\* the first lookup failed and the second holding is valued all the same
C5_Witness ==
    \E r \in Reqs :
        /\ Finished(r, "GET /portfolio")
        /\ Len(docs[r]) = 2
        /\ lookups[r][1] = NetErr
        /\ Get(stocks[r][1], "error") = FailedMarker
        /\ Get(stocks[r][2], "currentPrice") = Num(7)
        /\ Get(stocks[r][2], "totalValue") = JSMul(Num(7), docs[r][2].data["quantity"])

\* why the gate turned a credential down
Cause(token) ==
    IF ~token.present THEN "absent"
    ELSE IF token.sig # "good" THEN "invalid"
    ELSE IF token.expired THEN "expired"
    ELSE "none"

\* the gate answered the request on slot r itself
Rejected(r) == pc[r] # "idle" /\ Cause(rq[r].token) # "none"

\* C6 (as amended): the gate answers 403 when the credential is absent and
\* 401 when it is invalid or expired; the handler is not run in any of these
\* cases; a valid unexpired credential is resolved to the identity it carries.
C6_GateStatuses ==
    \A r \in Reqs :
        /\ Rejected(r) =>
              /\ pc[r] = "done"
              /\ responses[r] =
                    <<IF Cause(rq[r].token) = "absent"
                      THEN Response(403, Text("Token required"))
                      ELSE Response(401, Text("Invalid token"))>>
              /\ user[r] = Undef
              /\ calls[r] = 0
              /\ docs[r] = <<>>
        /\ pc[r] # "idle" /\ Cause(rq[r].token) = "none" => user[r] = rq[r].token.uid

\* an expired and an absent credential have both been turned down
C6_Witness ==
    \E r, q \in Reqs :
        /\ Rejected(r) /\ Cause(rq[r].token) = "expired"
        /\ Rejected(q) /\ Cause(rq[q].token) = "absent"

\* C6 as stated: besides the above, two requests turned down for different
\* reasons (absent, invalid, expired) get different statuses.
C6_DistinctStatusPerCase ==
    /\ C6_GateStatuses
    /\ \A r, q \in Reqs :
          Rejected(r) /\ Rejected(q) /\ Cause(rq[r].token) # Cause(rq[q].token) =>
              Sent(r).status # Sent(q).status

\* C7: GET /stocks/live answers 400 exactly when the symbol is missing, 404
\* whenever the provider's answer carries no quote or no price data, 200 with
\* a quote only when the provider returned one; the provider is called at
\* most once, and not at all in the 400 case.
C7_LiveStatuses ==
    \A r \in Reqs :
        Finished(r, "GET /stocks/live") =>
            /\ (Sent(r).status = 400) = ~Truthy(rq[r].symbol)
            /\ calls[r] <= 1
            /\ Sent(r).status = 400 => calls[r] = 0
            /\ Len(lookups[r]) = 1 /\ lookups[r][1].t = "data" /\ lookups[r][1].price = Undef
                  => Sent(r).status = 404
            /\ Sent(r).status = 200 =>
                  /\ Len(lookups[r]) = 1
                  /\ lookups[r][1].t = "data" /\ lookups[r][1].gq
                  /\ lookups[r][1].price # Undef
                  /\ Sent(r).body = QuoteBody(rq[r].symbol, lookups[r][1])

\* C8: the lookups of a GET /portfolio are all issued in the step the read
\* returns; the response is sent only when every one of them has settled;
\* a request is answered once; and, every lookup settling eventually, a
\* request waiting for its lookups is eventually answered.
C8_SettleAllThenRespond ==
    /\ [][\A r \in Reqs :
              pc[r] = "store" /\ pc'[r] = "quotes" =>
                  /\ calls'[r] = Len(docs'[r])
                  /\ Len(lookups'[r]) = Len(docs'[r])
                  /\ \A i \in 1..Len(lookups'[r]) : lookups'[r][i] = Pending]_vars
    /\ [](\A r \in Reqs :
              /\ Len(responses[r]) <= 1
              /\ pc[r] = "done" <=> Len(responses[r]) = 1
              /\ Len(responses[r]) = 1 /\ rq[r].route = "GET /portfolio" =>
                    \A i \in 1..Len(lookups[r]) :
                        lookups[r][i] # Pending /\ stocks[r][i] # Hole)
    /\ \A r \in Reqs : (pc[r] = "quotes") ~> (pc[r] = "done")

\* a request with two lookups has been answered after both settled
C8_Witness ==
    \E r \in Reqs :
        /\ Finished(r, "GET /portfolio")
        /\ calls[r] = 2
        /\ Len(responses[r]) = 1
        /\ \A i \in 1..2 : lookups[r][i] # Pending

\* C9: a holding keeps the owner it was created with for its whole life, and
\* a PUT or DELETE completed for an identity other than its owner neither
\* changes nor removes it.
C9_OwnedExclusively ==
    [][\A d \in DOMAIN store :
          /\ d \in DOMAIN store' => Get(store'[d], "uid") = Get(store[d], "uid")
          /\ \A r \in Reqs :
                /\ pc[r] = "store" /\ pc'[r] = "done"
                /\ rq[r].route \in {"PUT /portfolio/:id", "DELETE /portfolio/:id"}
                /\ user[r] # Get(store[d], "uid")
                => d \in DOMAIN store' /\ store'[d] = store[d]]_vars

RECURSIVE EntriesAlone(_, _, _)
\* the entries a request makes of holdings ds and outcomes lks, from the i-th on
EntriesAlone(ds, lks, i) ==
    IF i > Len(ds) THEN <<>>
    ELSE <<Mapper(ds[i], lks[i]).value>> \o EntriesAlone(ds, lks, i + 1)

\* C10: under every interleaving of two concurrent requests, the summary a
\* GET /portfolio sends is the one made of its own owner's holdings and its
\* own lookups' outcomes alone, and a request waiting for lookups has a
\* lookup of its own outstanding (it never waits for another request's).
C10_RequestsIndependent ==
    \A r \in Reqs :
        /\ Finished(r, "GET /portfolio") /\ Sent(r).status = 200 =>
              /\ docs[r] = QueryPortfolio(store, user[r])
              /\ Sent(r).body = PortfolioSummary(EntriesAlone(docs[r], lookups[r], 1))
        /\ pc[r] = "quotes" => \E i \in 1..Len(lookups[r]) : lookups[r][i] = Pending

\* one owner's request is answered while another owner's lookup is outstanding
C10_Witness ==
    \E r, q \in Reqs :
        /\ Finished(r, "GET /portfolio") /\ Sent(r).status = 200
        /\ Len(docs[r]) >= 1
        /\ pc[q] = "quotes"
        /\ user[q] # user[r]
        /\ lookups[q][1] = Pending

=============================================================================
